---- MODULE Spec2Model ----
(***************************************************************************)
(* Battle resolution engine of WOSBattleSim (src/main.py).                 *)
(*                                                                         *)
(* Real-valued quantities of the program (counts, health, damage, stats)   *)
(* are fixed-point integers: a value v of the program is the integer       *)
(* v * Scale.  Percentages stay plain integers.  Random draws (the         *)
(* activation draw of try_activate and the damage variance) are taken      *)
(* from small sets.                                                        *)
(***************************************************************************)
EXTENDS Integers, Sequences, FiniteSets, TLC

VARIABLES
    scn,      \* which configuration (the two armies handed to simulate_battle)
    pc,       \* position in simulate_battle
    turn,     \* simulate_battle: turn
    troops,   \* the TroopType objects: group -> its mutable fields
    skills,   \* the Skill objects: skill -> [activation_count, kills]
    armies,   \* the Army objects: army -> [status_effects, skill_activation_log, total_health]
    skill,    \* simulate_battle: the local variable `skill` (a loop variable)
    queue,    \* the rest of the current for-loop (tick items or actors)
    pending,  \* the action in progress between its first and second attack
    winner,   \* simulate_battle: winner
    ev,       \* the last step taken (what battle_log records of it, and more)
    applied,  \* history: holder -> effect kind -> the turn and duration of its last application
    burn_losses \* history: army -> the troops its groups have lost in burn ticks

vars == <<scn, pc, turn, troops, skills, armies, skill, queue, pending, winner, ev, applied, burn_losses>>

-----------------------------------------------------------------------------
(* Bounds of the model *)

\* fixed-point resolution: the program's 1.0 is Scale
Scale == 100
\* simulate_battle's max_turns argument
MaxTurns == 3

\* float('inf'), the default of Skill.max_uses
Inf == 1000000

\* the draws of random.random() in try_activate, in percent
Draws == {0, 99}
\* the draws of random.uniform(0.9, 1.1) in calculate_damage, in percent
Variances == {90, 110}

Armies == <<"A", "B">>
Other(a) == IF a = "A" THEN "B" ELSE "A"

Min(a, b) == IF a <= b THEN a ELSE b
Max(a, b) == IF a >= b THEN a ELSE b

RECURSIVE SumSeq(_)
SumSeq(s) == IF s = <<>> THEN 0 ELSE Head(s) + SumSeq(Tail(s))

\* x * (p / 100) in fixed point
Pct(x, p) == (x * p) \div 100

-----------------------------------------------------------------------------
(* Configuration data: Skill, TroopType and Army constructor arguments *)

Skill(name, effect_type, value, chance, target, duration, once_per_battle, max_uses) ==
    [name |-> name, effect_type |-> effect_type, value |-> value,
     chance |-> chance, target |-> target, duration |-> duration,
     once_per_battle |-> once_per_battle, max_uses |-> max_uses]

Bonuses(attack, defense, lethality, health) ==
    [attack |-> attack, defense |-> defense, lethality |-> lethality, health |-> health]
NoBonus == Bonuses(0, 0, 0, 0)

Troop(name, base_attack, base_defense, base_lethality, base_health, cnt, bonuses, static_skills, rng_skills, position, initiative) ==
    [name |-> name, base_attack |-> base_attack, base_defense |-> base_defense,
     base_lethality |-> base_lethality, base_health |-> base_health,
     count |-> cnt, bonuses |-> bonuses, static_skills |-> static_skills,
     rng_skills |-> rng_skills, position |-> position, initiative |-> initiative]

ArmyCfg(groups, hero) == [troops |-> groups, hero_skills |-> hero]

Battle(a, b, max_turns) == [A |-> a, B |-> b, max_turns |-> max_turns]

\* spec section 8: one Infantry group a side, no skills at all
PlainInfantry(cnt) == Troop("Infantry", 2, 0, 0, 1, cnt, NoBonus, <<>>, <<>>, "Front", 1)

ScnPlain == Battle(ArmyCfg(<<PlainInfantry(4)>>, <<>>),
                   ArmyCfg(<<PlainInfantry(4)>>, <<>>), MaxTurns)

\* a group of count 0 on one side, a once-per-battle health bonus, a capped
\* multi_attack and an actor whose only skill is a static one
ScnEmptyGroup ==
    Battle(ArmyCfg(<<Troop("Infantry", 1, 0, 0, 2, 2, NoBonus,
                           <<Skill("Master Brawler", "damage_increase", 100, 100, "Lancer", 1, FALSE, Inf)>>,
                           <<>>, "Front", 1),
                     Troop("Marksman", 1, 0, 0, 1, 0, NoBonus, <<>>, <<>>, "Back", 1)>>,
                   <<Skill("Implacable", "health_increase", 100, 100, "All", 1, TRUE, Inf)>>),
           ArmyCfg(<<Troop("Lancer", 1, 1, 100, 4, 3, Bonuses(50, 0, 0, 0),
                           <<>>,
                           <<Skill("Volley", "multi_attack", 0, 50, "All", 1, FALSE, 2)>>,
                           "Middle", 1)>>,
                   <<>>),
           MaxTurns)

\* stuns of several durations, a once_per_battle skill and a capped skill rolled
\* more often than they may fire; nobody is defeated before the turn cap
ScnStun ==
    Battle(ArmyCfg(<<Troop("Infantry", 1, 0, 0, 20, 4, NoBonus,
                           <<>>,
                           <<Skill("Numbing Spores", "stun", 0, 100, "All", 3, TRUE, Inf)>>,
                           "Front", 1)>>,
                   <<Skill("Dosage Boost", "damage_increase", 100, 100, "All", 1, FALSE, 2)>>),
           ArmyCfg(<<Troop("Infantry", 1, 0, 0, 20, 4, NoBonus,
                           <<>>,
                           <<Skill("Onslaught", "stun", 0, 50, "All", 1, FALSE, Inf)>>,
                           "Front", 2)>>,
                   <<>>),
           MaxTurns)

\* a burn that is refreshed while it lasts, or left to expire
ScnBurn ==
    Battle(ArmyCfg(<<Troop("Lancer", 2, 0, 0, 8, 3, NoBonus,
                           <<>>,
                           <<Skill("Pyromaniac", "burn", 50, 50, "All", 2, FALSE, Inf)>>,
                           "Middle", 1)>>,
                   <<>>),
           ArmyCfg(<<Troop("Lancer", 1, 1, 0, 2, 6, NoBonus, <<>>, <<>>, "Front", 1)>>,
                   <<>>),
           MaxTurns)

\* direct attacks, one action with two of them, against an army whose insertion
\* order is not its tier order; a multi_attack on a redirected action
ScnDirect ==
    Battle(ArmyCfg(<<Troop("Lancer", 2, 0, 0, 4, 3, NoBonus,
                           <<Skill("Charge", "damage_increase", 100, 100, "Marksman", 1, FALSE, Inf)>>,
                           <<Skill("Ambusher", "direct_attack", 0, 100, "Marksman", 1, FALSE, 1),
                             Skill("Volley", "multi_attack", 0, 100, "All", 1, FALSE, 1)>>,
                           "Middle", 1)>>,
                   <<Skill("Snipe", "direct_attack", 0, 50, "Infantry", 1, FALSE, Inf)>>),
           ArmyCfg(<<Troop("Marksman", 1, 0, 0, 4, 2, NoBonus, <<>>, <<>>, "Back", 1),
                     Troop("Lancer", 1, 0, 0, 2, 2, NoBonus, <<>>, <<>>, "Front", 1),
                     Troop("Infantry", 0, 0, 0, 2, 2, NoBonus, <<>>, <<>>, "Front", 1)>>,
                   <<>>),
           3)

\* one group against one group, each able to wipe out the other in one attack
ScnDraw ==
    Battle(ArmyCfg(<<Troop("Infantry", 2, 0, 0, 1, 1, NoBonus,
                           <<Skill("Master Brawler", "damage_increase", 10, 100, "Lancer", 1, FALSE, Inf)>>,
                           <<>>, "Front", 1)>>,
                   <<>>),
           ArmyCfg(<<PlainInfantry(1)>>, <<>>),
           MaxTurns)

\* the same with a second group behind the first army's Infantry
ScnDuel ==
    Battle(ArmyCfg(<<Troop("Infantry", 2, 0, 0, 1, 1, NoBonus,
                           <<Skill("Master Brawler", "damage_increase", 10, 100, "Lancer", 1, FALSE, Inf)>>,
                           <<>>, "Front", 1),
                     Troop("Lancer", 1, 0, 0, 1, 1, NoBonus, <<>>, <<>>, "Middle", 1)>>,
                   <<>>),
           ArmyCfg(<<PlainInfantry(1)>>, <<>>),
           MaxTurns)

\* five groups whose insertion order is not their initiative order, with ties
\* inside an army and across the armies; one of them is defeated in turn 2
ScnOrder ==
    Battle(ArmyCfg(<<Troop("Infantry", 0, 0, 0, 4, 1, NoBonus, <<>>, <<>>, "Front", 1),
                     Troop("Lancer", 0, 0, 0, 4, 1, NoBonus,
                           <<Skill("Charge", "damage_increase", 10, 100, "Marksman", 1, FALSE, Inf)>>,
                           <<>>, "Middle", 2)>>,
                   <<>>),
           ArmyCfg(<<Troop("Marksman", 0, 0, 0, 4, 1, NoBonus, <<>>, <<>>, "Back", 1),
                     Troop("Infantry", 1, 0, 0, 4, 1, NoBonus, <<>>, <<>>, "Front", 2),
                     Troop("Lancer", 0, 0, 0, 4, 1, NoBonus, <<>>, <<>>, "Middle", 2)>>,
                   <<>>),
           MaxTurns)

\* timed effects of several durations, each kind fired again while an entry of
\* that kind is present
ScnDebuff ==
    Battle(ArmyCfg(<<Troop("Lancer", 2, 0, 0, 4, 3, NoBonus,
                           <<>>,
                           <<Skill("Numbing Spores", "stun", 0, 100, "All", 2, FALSE, 1),
                             Skill("Onslaught", "stun", 0, 100, "All", 1, FALSE, 1),
                             Skill("Immolation", "damage_taken_increase", 50, 50, "All", 2, FALSE, Inf),
                             Skill("Poison Harpoon", "damage_taken_increase", 100, 100, "All", 1, FALSE, Inf)>>,
                           "Middle", 2)>>,
                   <<Skill("Iron Strength", "damage_decrease", 50, 50, "All", 2, FALSE, Inf),
                     Skill("Bulwark", "damage_decrease", 100, 100, "All", 3, FALSE, Inf)>>),
           ArmyCfg(<<Troop("Infantry", 0, 1, 0, 50, 4, NoBonus, <<>>, <<>>, "Front", 1)>>,
                   <<>>),
           MaxTurns)

Scenarios == <<ScnPlain, ScnEmptyGroup, ScnStun, ScnBurn, ScnDirect, ScnDraw, ScnDuel,
               ScnOrder, ScnDebuff>>

cfg == Scenarios[scn]

-----------------------------------------------------------------------------
(* Identities of the objects of a configuration *)

\* a troop group: <<army, index in the army's troops dict (insertion order)>>
GroupsOf(c, a) == {<<a, i>> : i \in 1..Len(c[a].troops)}
Groups(c) == GroupsOf(c, "A") \cup GroupsOf(c, "B")
TroopOf(c, g) == c[g[1]].troops[g[2]]

\* a Skill object: <<list it is in, army, index of the group (0: hero), index>>
Unbound == <<"unbound", "", 0, 0>>
\* the value None of a skill argument
NoSkill == <<"none", "", 0, 0>>
StaticIds(c, g) == [i \in 1..Len(TroopOf(c, g).static_skills) |-> <<"static", g[1], g[2], i>>]
RngIds(c, g) == [i \in 1..Len(TroopOf(c, g).rng_skills) |-> <<"rng", g[1], g[2], i>>]
HeroIds(c, a) == [i \in 1..Len(c[a].hero_skills) |-> <<"hero", a, 0, i>>]
SkillOf(c, id) ==
    IF id[1] = "hero" THEN c[id[2]].hero_skills[id[4]]
    ELSE IF id[1] = "rng" THEN c[id[2]].troops[id[3]].rng_skills[id[4]]
    ELSE c[id[2]].troops[id[3]].static_skills[id[4]]
SeqRange(s) == {s[i] : i \in 1..Len(s)}
SkillIds(c) ==
    UNION {SeqRange(StaticIds(c, g)) \cup SeqRange(RngIds(c, g)) : g \in Groups(c)}
    \cup SeqRange(HeroIds(c, "A")) \cup SeqRange(HeroIds(c, "B"))
SkillNames(c, a) == {c[a].hero_skills[i].name : i \in 1..Len(c[a].hero_skills)}
    \cup UNION {{SkillOf(c, id).name : id \in SeqRange(RngIds(c, g))} : g \in GroupsOf(c, a)}

-----------------------------------------------------------------------------
(* Skill.try_activate *)

\* try_activate without the once_per_battle test
try_activate_no_once(s, activation, r) ==
    IF activation >= s.max_uses THEN <<FALSE, activation>>
    ELSE IF r <= Min(s.chance, 100) THEN <<TRUE, activation + 1>>
    ELSE <<FALSE, activation>>

\* the draw r is random.random() in percent; the result is <<activated, count>>
try_activate(s, activation, r) ==
    IF s.once_per_battle /\ activation > 0 THEN <<FALSE, activation>>
    ELSE IF activation >= s.max_uses THEN <<FALSE, activation>>
    ELSE IF r <= Min(s.chance, 100) THEN <<TRUE, activation + 1>>
    ELSE <<FALSE, activation>>

-----------------------------------------------------------------------------
(* TroopType and Army construction *)

calculate_effective_stats(t, bonuses) ==
    [attack |-> Pct(t.base_attack * Scale, 100 + bonuses.attack),
     defense |-> Pct(t.base_defense * Scale, 100 + bonuses.defense),
     lethality |-> Pct(t.base_lethality * Scale, 100 + bonuses.lethality),
     health |-> Pct(t.base_health * Scale, 100 + bonuses.health)]

\* the bonus of kind k after apply_once_skills folded the hero skills in
RECURSIVE OnceBonus(_, _, _)
OnceBonus(hero, effect_type, b) ==
    IF hero = <<>> THEN b
    ELSE OnceBonus(Tail(hero), effect_type,
                   IF Head(hero).once_per_battle /\ Head(hero).effect_type = effect_type
                   THEN b + Head(hero).value ELSE b)

apply_once_skills(hero, bonuses) ==
    [attack |-> OnceBonus(hero, "damage_increase", bonuses.attack),
     defense |-> OnceBonus(hero, "defense_increase", bonuses.defense),
     lethality |-> bonuses.lethality,
     health |-> OnceBonus(hero, "health_increase", bonuses.health)]

\* TroopType.__init__ followed by the Army.__init__ of its army
TroopInit(t, hero) ==
    LET folded == apply_once_skills(hero, t.bonuses) IN
    [count |-> t.count * Scale,
     initial_count |-> t.count * Scale,
     bonuses |-> folded,
     \* recomputed by apply_once_skills after every fold
     effective_stats |-> calculate_effective_stats(t, folded),
     \* set by TroopType.__init__ from the stats before the fold, and not again
     total_health |-> (calculate_effective_stats(t, t.bonuses).health * (t.count * Scale)) \div Scale,
     alive |-> TRUE,
     kills |-> 0,
     status_effects |-> {},
     lightly_injured |-> 0,
     severely_injured |-> 0]

update_total_health(tr, a) ==
    LET gs == {g \in DOMAIN tr : g[1] = a /\ tr[g].alive}
        RECURSIVE Sum(_)
        Sum(S) == IF S = {} THEN 0
                  ELSE LET g == CHOOSE x \in S : TRUE IN tr[g].total_health + Sum(S \ {g})
    IN Sum(gs)

is_defeated(tr, a) == \A g \in DOMAIN tr : g[1] = a => ~tr[g].alive

\* the living groups of the first non-empty position tier, in insertion order
TierOf(c, tr, a, position) ==
    SelectSeq([i \in 1..Len(c[a].troops) |-> <<a, i>>],
              LAMBDA g : TroopOf(c, g).position = position /\ tr[g].alive)

\* get_frontline without the position tiers
get_frontline_any(c, tr, a) ==
    SelectSeq([i \in 1..Len(c[a].troops) |-> <<a, i>>], LAMBDA g : tr[g].alive)

get_frontline(c, tr, a) ==
    IF TierOf(c, tr, a, "Front") # <<>> THEN TierOf(c, tr, a, "Front")
    ELSE IF TierOf(c, tr, a, "Middle") # <<>> THEN TierOf(c, tr, a, "Middle")
    ELSE TierOf(c, tr, a, "Back")

\* Army.troops.get(name): the group stored under that key, or None
NoGroup == <<"none", 0>>
troops_get(c, a, name) ==
    LET hits == {i \in 1..Len(c[a].troops) : c[a].troops[i].name = name} IN
    IF hits = {} THEN NoGroup ELSE <<a, CHOOSE i \in hits : TRUE>>

-----------------------------------------------------------------------------
(* Status effect entries: a dict of the program is the set of its entries *)

Effect(kind, value, damage, remaining_turns) ==
    [kind |-> kind, value |-> value, damage |-> damage, remaining_turns |-> remaining_turns]

Has(effects, kind) == \E e \in effects : e.kind = kind
Get(effects, kind) == CHOOSE e \in effects : e.kind = kind

-----------------------------------------------------------------------------
(* calculate_damage and apply_damage *)

\* ENGAGEMENT_RATES.get(name, 0.5), doubled
EngagementRate2(name) ==
    IF name = "Infantry" THEN 6
    ELSE IF name \in {"Lancer", "Marksman"} THEN 2
    ELSE 1

number_of_attackers(name, cnt) == Max(1, (cnt * EngagementRate2(name)) \div (2 * Scale))

\* variance is the draw of random.uniform(0.9, 1.1), in percent
calculate_damage(attacker_name, attacker, defender, damage_modifiers, defender_army, variance) ==
    LET attack == attacker.effective_stats.attack
        lethality == attacker.effective_stats.lethality
        defense0 == defender.effective_stats.defense
        defense1 == IF Has(defender.status_effects, "damage_decrease")
                    THEN Pct(defense0, 100 + Get(defender.status_effects, "damage_decrease").value)
                    ELSE defense0
        defense == IF Has(defender_army.status_effects, "damage_decrease")
                   THEN Pct(defense1, 100 + Get(defender_army.status_effects, "damage_decrease").value)
                   ELSE defense1
        base_damage == (attack * (100 * Scale + lethality)) \div (100 * Scale)
        modified == Pct(base_damage, 100 + SumSeq(damage_modifiers))
        defense_factor == defense + Scale
        damage_per_troop == Pct((modified * Scale) \div defense_factor, variance)
    IN damage_per_troop * number_of_attackers(attacker_name, attacker.count)

\* troops_lost without the cap at the defender's count
troops_lost_uncapped(defender, damage) ==
    (damage * Scale) \div defender.effective_stats.health

troops_lost(defender, damage) ==
    Min(defender.count, (damage * Scale) \div defender.effective_stats.health)

\* lines 154-155, in percent
lightly_injured_ratio == 65
severely_injured_ratio == 35

\* injured that keeps only the share of the last loss
injured_last_only(counter, lost, ratio) ==
    IF lost > 0 THEN ratio * lost ELSE counter

\* lines 153-159: an injury counter after a loss; the counters are kept in
\* hundredths of the unit of count, so that 65% and 35% of a loss are exact
injured(counter, lost, ratio) ==
    IF lost > 0 THEN counter + ratio * lost ELSE counter

\* the defender's fields after apply_damage
DamageDefender(defender, damage) ==
    LET lost == troops_lost(defender, damage) IN
    [defender EXCEPT
        !.count = @ - lost,
        !.total_health = @ - damage,
        !.lightly_injured = injured(@, lost, lightly_injured_ratio),
        !.severely_injured = injured(@, lost, severely_injured_ratio),
        !.alive = IF defender.count - lost <= 0 THEN FALSE ELSE @]

\* apply_damage that credits damage / health, whatever the defender had left
apply_damage_credit_uncapped(tr, sk, d, damage, att, s) ==
    LET lost == troops_lost_uncapped(tr[d], damage)
        tr1 == [tr EXCEPT ![d] = DamageDefender(tr[d], damage)]
    IN [troops |-> IF att = NoGroup THEN tr1
                   ELSE [tr1 EXCEPT ![att].kills = @ + lost],
        skills |-> IF att = NoGroup \/ s = NoSkill THEN sk
                   ELSE [sk EXCEPT ![s].kills = @ + lost]]

\* apply_damage(defender, damage, attacker, skill): the troops and the skills after it
apply_damage(tr, sk, d, damage, att, s) ==
    LET lost == troops_lost(tr[d], damage)
        tr1 == [tr EXCEPT ![d] = DamageDefender(tr[d], damage)]
    IN [troops |-> IF att = NoGroup THEN tr1
                   ELSE [tr1 EXCEPT ![att].kills = @ + lost],
        skills |-> IF att = NoGroup \/ s = NoSkill THEN sk
                   ELSE [sk EXCEPT ![s].kills = @ + lost]]

-----------------------------------------------------------------------------
(* apply_status_effects and apply_army_status_effects *)

\* Decremented that removes an entry one tick late
Decremented_late(effects) ==
    {[e EXCEPT !.remaining_turns = @ - 1] : e \in {x \in effects : x.remaining_turns - 1 >= 0}}

\* every entry one turn older, the exhausted ones removed
Decremented(effects) ==
    {[e EXCEPT !.remaining_turns = @ - 1] : e \in {x \in effects : x.remaining_turns - 1 > 0}}

apply_status_effects(troop) ==
    LET burned == IF Has(troop.status_effects, "burn")
                  THEN DamageDefender(troop, Get(troop.status_effects, "burn").damage)
                  ELSE troop
    IN [burned EXCEPT
          !.status_effects = Decremented(troop.status_effects),
          !.alive = IF burned.count <= 0 THEN FALSE ELSE @]

apply_army_status_effects(army) ==
    [army EXCEPT !.status_effects = Decremented(@)]

-----------------------------------------------------------------------------
(* simulate_battle: the skill loop of one action (lines 236-277) *)

\* the skills rolled by an actor: its rng_skills, then its army's hero skills
\* that are not once_per_battle
RolledSkills(c, g) ==
    RngIds(c, g) \o SelectSeq(HeroIds(c, g[1]), LAMBDA id : ~SkillOf(c, id).once_per_battle)

\* the static damage_increase modifiers that apply to the default target
StaticModifiers(c, g, target) ==
    LET hits == SelectSeq(TroopOf(c, g).static_skills,
                          LAMBDA s : s.effect_type = "damage_increase"
                                     /\ (s.target = TroopOf(c, target).name \/ s.target = "All"))
    IN [i \in 1..Len(hits) |-> hits[i].value]

\* direct_target without the test that the named group is alive
direct_target_any(c, tr, da, s) == troops_get(c, da, s.target)

\* lines 269-270: the group a direct_attack skill redirects the action to, if any
direct_target(c, tr, da, s) ==
    LET target_troop == troops_get(c, da, s.target) IN
    IF target_troop # NoGroup /\ tr[target_troop].alive THEN target_troop ELSE NoGroup

\* add_effect that replaces an entry of the same kind
add_effect_refresh(effects, kind, value, duration) ==
    {e \in effects : e.kind # kind} \cup {Effect(kind, value, 0, duration)}

\* lines 256-257, 260-261, 264-265: a new entry unless one of that kind is present
add_effect(effects, kind, value, duration) ==
    IF Has(effects, kind) THEN effects
    ELSE effects \cup {Effect(kind, value, 0, duration)}

\* the effect of one activated skill on the loop's variables
Activate(c, L, id, a) ==
    LET s == SkillOf(c, id)
        da == Other(a)
        L1 == [L EXCEPT !.armies[a].skill_activation_log[s.name] = @ + 1,
                        !.activated = @ \cup {id}]
    IN
    IF s.effect_type = "damage_increase"
       /\ (s.target = TroopOf(c, L.target).name \/ s.target = "All")
    THEN [L1 EXCEPT !.damage_modifiers = Append(@, s.value)]
    ELSE IF s.effect_type = "burn"
    THEN [L1 EXCEPT !.apply_burn = TRUE, !.burn_skill = id]
    ELSE IF s.effect_type = "stun"
    THEN [L1 EXCEPT !.troops[L.target].status_effects =
                        add_effect(@, "stun", 0, s.duration)]
    ELSE IF s.effect_type = "damage_taken_increase"
    THEN [L1 EXCEPT !.troops[L.target].status_effects =
                        add_effect(@, "damage_taken_increase", s.value, s.duration)]
    ELSE IF s.effect_type = "damage_decrease"
    THEN [L1 EXCEPT !.armies[da].status_effects =
                        add_effect(@, "damage_decrease", s.value, s.duration)]
    ELSE IF s.effect_type = "direct_attack"
    THEN IF direct_target(c, L.troops, da, s) # NoGroup
         THEN [L1 EXCEPT !.target = direct_target(c, L.troops, da, s),
                         !.special_target = TRUE]
         ELSE L1
    ELSE IF s.effect_type = "multi_attack"
    THEN [L1 EXCEPT !.multi_attack = TRUE]
    ELSE L1

\* the loop over ids, draws[i] being the activation draw of the i-th skill
RECURSIVE RunSkills(_, _, _, _, _, _)
RunSkills(c, L, ids, draws, i, a) ==
    IF i > Len(ids) THEN L
    ELSE LET id == ids[i]
             r == try_activate(SkillOf(c, id), L.skills[id].activation_count, draws[i])
             L1 == [L EXCEPT !.skills[id].activation_count = r[2]]
         IN \* the loop variables after this iteration, computed once
            CHOOSE out \in {RunSkills(c, M, ids, draws, i + 1, a) :
                                M \in {IF r[1] THEN Activate(c, L1, id, a) ELSE L1}} : TRUE

\* the local variable `skill` after the two loops of an action
SkillAfterLoops(c, g, before) ==
    IF RolledSkills(c, g) # <<>> THEN RolledSkills(c, g)[Len(RolledSkills(c, g))]
    ELSE IF StaticIds(c, g) # <<>> THEN StaticIds(c, g)[Len(StaticIds(c, g))]
    ELSE before

-----------------------------------------------------------------------------
(* simulate_battle: the steps of the turn loop *)

\* the holders of status effects: the groups, and <<a, 0>> for army a
Holders(c) == Groups(c) \cup {<<"A", 0>>, <<"B", 0>>}
EffectKinds == {"stun", "burn", "damage_taken_increase", "damage_decrease"}
EffectsOf(tr, ar, h) == IF h[2] = 0 THEN ar[h[1]].status_effects ELSE tr[h].status_effects
NeverApplied == [turn |-> 0, duration |-> 0]

\* the record of applications after an action of turn t that led from the
\* effects of tr, ar to those of tr2, ar2 and set or refreshed a burn on burnt
Applications(c, old, t, tr, ar, tr2, ar2, burnt) ==
    [h \in Holders(c) |-> [k \in EffectKinds |->
        IF (k = "burn" /\ h = burnt)
           \/ (~Has(EffectsOf(tr, ar, h), k) /\ Has(EffectsOf(tr2, ar2, h), k))
        THEN [turn |-> t, duration |-> Get(EffectsOf(tr2, ar2, h), k).remaining_turns]
        ELSE old[h][k]]]

NoPending ==
    [attacker |-> NoGroup, target |-> NoGroup, static_modifiers |-> <<>>, damage_modifiers |-> <<>>]

\* what a step did; the fields a step does not use keep these values
NoEvent ==
    [kind |-> "init", actor |-> NoGroup, default_target |-> NoGroup, target |-> NoGroup,
     rolled |-> <<>>, activated |-> {}, static_modifiers |-> <<>>,
     damage_modifiers |-> <<>>, damage |-> 0,
     burn_skill |-> NoSkill, credited |-> NoSkill]

\* the items of the two for-loops of a turn
TickItems(c) ==
    [i \in 1..Len(c.A.troops) |-> <<"troop", "A", i>>] \o <<<<"army", "A", 0>>>> \o
    [i \in 1..Len(c.B.troops) |-> <<"troop", "B", i>>] \o <<<<"army", "B", 0>>>>

GroupOfItem(item) == <<item[2], item[3]>>

\* all_troops: the living groups of army_a, then of army_b, stably sorted by
\* initiative, highest first
RECURSIVE SortedFrom(_, _, _)
SortedFrom(c, list, initiative) ==
    IF initiative < 0 THEN <<>>
    ELSE SelectSeq(list, LAMBDA g : TroopOf(c, g).initiative = initiative)
         \o SortedFrom(c, list, initiative - 1)

MaxInitiative(c) ==
    LET all == {TroopOf(c, g).initiative : g \in Groups(c)} IN
    CHOOSE m \in all : \A x \in all : x <= m

\* all_troops that lists the second army's groups first
all_troops_second_first(c, tr) ==
    LET living(a) == SelectSeq([i \in 1..Len(c[a].troops) |-> <<a, i>>], LAMBDA g : tr[g].alive)
    IN SortedFrom(c, living("B") \o living("A"), MaxInitiative(c))

all_troops(c, tr) ==
    LET living(a) == SelectSeq([i \in 1..Len(c[a].troops) |-> <<a, i>>], LAMBDA g : tr[g].alive)
    IN SortedFrom(c, living("A") \o living("B"), MaxInitiative(c))

\* apply_burn_effect that overwrites the stored damage of an existing burn
apply_burn_effect_overwrite(effects, burn_damage, duration) ==
    (effects \ {e \in effects : e.kind = "burn"})
    \cup {Effect("burn", 0, burn_damage, duration)}

\* lines 289-297: the target's effects after the burn of an attack is applied
apply_burn_effect(effects, burn_damage, duration) ==
    IF ~Has(effects, "burn")
    THEN effects \cup {Effect("burn", 0, burn_damage, duration)}
    ELSE (effects \ {Get(effects, "burn")})
         \cup {Effect("burn", 0, Get(effects, "burn").damage + burn_damage, duration)}

\* consume_stun that never removes the entry
consume_stun_keep(effects) ==
    LET stun == Get(effects, "stun") IN
    (effects \ {stun}) \cup {[stun EXCEPT !.remaining_turns = @ - 1]}

\* lines 222-225: the actor's effects after its stun is consumed
consume_stun(effects) ==
    LET stun == Get(effects, "stun") IN
    IF stun.remaining_turns - 1 <= 0 THEN effects \ {stun}
    ELSE (effects \ {stun}) \cup {[stun EXCEPT !.remaining_turns = @ - 1]}

\* determine_winner that favours the first army when neither is defeated
determine_winner_first(tr) ==
    IF is_defeated(tr, "A") /\ is_defeated(tr, "B") THEN "Draw"
    ELSE IF is_defeated(tr, "A") THEN "B"
    ELSE "A"

\* lines 321-326
determine_winner(tr) ==
    IF is_defeated(tr, "A") /\ is_defeated(tr, "B") THEN "Draw"
    ELSE IF is_defeated(tr, "B") THEN "A"
    ELSE "B"

Init ==
    /\ scn \in 1..Len(Scenarios)
    /\ pc = "loop"
    /\ turn = 0
    /\ troops = [g \in Groups(cfg) |-> TroopInit(TroopOf(cfg, g), cfg[g[1]].hero_skills)]
    /\ skills = [id \in SkillIds(cfg) |-> [activation_count |-> 0, kills |-> 0]]
    /\ armies = [a \in {"A", "B"} |->
                    [status_effects |-> {},
                     skill_activation_log |->
                        [n \in SkillNames(cfg, a) |->
                            IF \E i \in 1..Len(cfg[a].hero_skills) :
                                  cfg[a].hero_skills[i].name = n
                                  /\ cfg[a].hero_skills[i].once_per_battle
                            THEN 1 ELSE 0],
                     total_health |-> update_total_health(troops, a)]]
    /\ skill = Unbound
    /\ queue = <<>>
    /\ pending = NoPending
    /\ winner = ""
    /\ ev = NoEvent
    /\ applied = [h \in Holders(cfg) |-> [k \in EffectKinds |-> NeverApplied]]
    /\ burn_losses = [a \in {"A", "B"} |-> 0]

\* loop_test without the turn cap
loop_test_no_cap(c, t, tr) ==
    ~is_defeated(tr, "A") /\ ~is_defeated(tr, "B")

\* line 199: the condition of the while loop
loop_test(c, t, tr) ==
    t < c.max_turns /\ ~is_defeated(tr, "A") /\ ~is_defeated(tr, "B")

\* line 199-200: the loop test, and the start of a turn
StartTurn ==
    /\ pc = "loop"
    /\ loop_test(cfg, turn, troops)
    /\ turn' = turn + 1
    /\ queue' = TickItems(cfg)
    /\ pc' = "tick"
    /\ ev' = [NoEvent EXCEPT !.kind = "turn"]
    /\ UNCHANGED <<scn, burn_losses, applied, troops, skills, armies, skill, pending, winner>>

\* line 199: the loop test fails
ExitLoop ==
    /\ pc = "loop"
    /\ ~loop_test(cfg, turn, troops)
    /\ pc' = "winner"
    /\ ev' = [NoEvent EXCEPT !.kind = "exit"]
    /\ UNCHANGED <<scn, burn_losses, applied, turn, troops, skills, armies, skill, queue, pending, winner>>

\* lines 206-208 for one living group
TickTroop ==
    /\ pc = "tick" /\ queue # <<>> /\ Head(queue)[1] = "troop"
    /\ LET g == GroupOfItem(Head(queue)) IN
        /\ troops[g].alive
        /\ troops' = [troops EXCEPT ![g] = apply_status_effects(@)]
        /\ ev' = [NoEvent EXCEPT !.kind = "tick", !.actor = g,
                                 !.damage = IF Has(troops[g].status_effects, "burn")
                                            THEN Get(troops[g].status_effects, "burn").damage
                                            ELSE 0]
        /\ burn_losses' = [burn_losses EXCEPT ![g[1]] = @ + troops[g].count - troops'[g].count]
    /\ queue' = Tail(queue)
    /\ UNCHANGED <<scn, applied, pc, turn, skills, armies, skill, pending, winner>>

\* line 207: a group that is not alive gets no tick
TickSkipDead ==
    /\ pc = "tick" /\ queue # <<>> /\ Head(queue)[1] = "troop"
    /\ ~troops[GroupOfItem(Head(queue))].alive
    /\ queue' = Tail(queue)
    /\ ev' = [NoEvent EXCEPT !.kind = "tickskip", !.actor = GroupOfItem(Head(queue))]
    /\ UNCHANGED <<scn, burn_losses, applied, pc, turn, troops, skills, armies, skill, pending, winner>>

\* line 209
TickArmy ==
    /\ pc = "tick" /\ queue # <<>> /\ Head(queue)[1] = "army"
    /\ armies' = [armies EXCEPT ![Head(queue)[2]] = apply_army_status_effects(@)]
    /\ queue' = Tail(queue)
    /\ ev' = [NoEvent EXCEPT !.kind = "armytick"]
    /\ UNCHANGED <<scn, burn_losses, applied, pc, turn, troops, skills, skill, pending, winner>>

\* lines 212-214
DetermineOrder ==
    /\ pc = "tick" /\ queue = <<>>
    /\ queue' = [i \in 1..Len(all_troops(cfg, troops)) |->
                    <<"troop", all_troops(cfg, troops)[i][1], all_troops(cfg, troops)[i][2]>>]
    /\ pc' = "act"
    /\ ev' = [NoEvent EXCEPT !.kind = "order"]
    /\ UNCHANGED <<scn, burn_losses, applied, turn, troops, skills, armies, skill, pending, winner>>

\* lines 217-220: the defending army has no living group
NoTarget ==
    /\ pc = "act" /\ queue # <<>>
    /\ LET g == GroupOfItem(Head(queue)) IN
        /\ get_frontline(cfg, troops, Other(g[1])) = <<>>
        /\ ev' = [NoEvent EXCEPT !.kind = "notarget", !.actor = g]
    /\ queue' = Tail(queue)
    /\ UNCHANGED <<scn, burn_losses, applied, pc, turn, troops, skills, armies, skill, pending, winner>>

\* lines 222-227: a stunned actor
StunSkip ==
    /\ pc = "act" /\ queue # <<>>
    /\ LET g == GroupOfItem(Head(queue)) IN
        /\ get_frontline(cfg, troops, Other(g[1])) # <<>>
        /\ Has(troops[g].status_effects, "stun")
        /\ troops' = [troops EXCEPT ![g].status_effects = consume_stun(@)]
        /\ ev' = [NoEvent EXCEPT !.kind = "stunned", !.actor = g]
    /\ queue' = Tail(queue)
    /\ UNCHANGED <<scn, burn_losses, applied, pc, turn, skills, armies, skill, pending, winner>>

\* lines 229-277: the default target, the static modifiers and the skill loop
ActionLoop(c, tr, sk, ar, g, draws) ==
    LET target == get_frontline(c, tr, Other(g[1]))[1] IN
    RunSkills(c,
              [troops |-> tr, skills |-> sk, armies |-> ar, target |-> target,
               special_target |-> FALSE,
               static_modifiers |-> StaticModifiers(c, g, target),
               damage_modifiers |-> StaticModifiers(c, g, target),
               apply_burn |-> FALSE, burn_skill |-> NoSkill, multi_attack |-> FALSE,
               activated |-> {}],
              RolledSkills(c, g), draws, 1, g[1])

\* lines 280-281
FinalModifiers(L) ==
    IF Has(L.troops[L.target].status_effects, "damage_taken_increase")
    THEN Append(L.damage_modifiers,
                Get(L.troops[L.target].status_effects, "damage_taken_increase").value)
    ELSE L.damage_modifiers

\* lines 284-303: the first attack of an action, its burn, the defeat check
FirstAttack(c, L, g, s, variance) ==
    LET da == Other(g[1])
        damage == calculate_damage(TroopOf(c, g).name, L.troops[g], L.troops[L.target],
                                   FinalModifiers(L), L.armies[da], variance)
        hit == apply_damage(L.troops, L.skills, L.target, damage, g, s)
        burnt == IF L.apply_burn
                 THEN [hit.troops EXCEPT ![L.target].status_effects =
                          apply_burn_effect(@, Pct(damage, SkillOf(c, L.burn_skill).value),
                                            SkillOf(c, L.burn_skill).duration)]
                 ELSE hit.troops
    IN [troops |-> burnt,
        skills |-> hit.skills,
        armies |-> IF ~burnt[L.target].alive
                   THEN [L.armies EXCEPT ![da].total_health = update_total_health(burnt, da)]
                   ELSE L.armies,
        damage |-> damage]

\* second_attack_due without the test that the target is alive
second_attack_due_any(multi_attack, target_alive) == multi_attack

\* line 306
second_attack_due(multi_attack, target_alive) == multi_attack /\ target_alive

\* lines 229-311 up to the second attack, for the actor at the head of the order
Attack ==
    /\ pc = "act" /\ queue # <<>>
    /\ LET g == GroupOfItem(Head(queue))
           s == SkillAfterLoops(cfg, g, skill)
       IN
        /\ get_frontline(cfg, troops, Other(g[1])) # <<>>
        /\ ~Has(troops[g].status_effects, "stun")
        /\ s # Unbound
        /\ \E draws \in [1..Len(RolledSkills(cfg, g)) -> Draws], variance \in Variances :
            \E L \in {ActionLoop(cfg, troops, skills, armies, g, draws)} :
            \E R \in {FirstAttack(cfg, L, g, s, variance)} :
            LET again == second_attack_due(L.multi_attack, R.troops[L.target].alive) IN
            /\ troops' = R.troops
            /\ applied' = Applications(cfg, applied, turn, troops, armies, R.troops, R.armies,
                                       IF L.apply_burn THEN L.target ELSE NoGroup)
            /\ skills' = R.skills
            /\ armies' = R.armies
            /\ skill' = s
            /\ ev' = [kind |-> "attack", actor |-> g,
                      default_target |-> get_frontline(cfg, troops, Other(g[1]))[1],
                      target |-> L.target, rolled |-> RolledSkills(cfg, g),
                      activated |-> L.activated, static_modifiers |-> L.static_modifiers,
                      damage_modifiers |-> FinalModifiers(L),
                      damage |-> R.damage,
                      burn_skill |-> IF L.apply_burn THEN L.burn_skill ELSE NoSkill,
                      credited |-> s]
            /\ IF again
               THEN /\ pc' = "second"
                    /\ pending' = [attacker |-> g, target |-> L.target,
                                   static_modifiers |-> L.static_modifiers,
                                   damage_modifiers |-> FinalModifiers(L)]
                    /\ queue' = queue
               ELSE /\ pc' = "act"
                    /\ pending' = NoPending
                    /\ queue' = Tail(queue)
    /\ UNCHANGED <<scn, burn_losses, turn, winner>>

\* line 285 with `skill` never assigned: UnboundLocalError ends the program
Crash ==
    /\ pc = "act" /\ queue # <<>>
    /\ LET g == GroupOfItem(Head(queue)) IN
        /\ get_frontline(cfg, troops, Other(g[1])) # <<>>
        /\ ~Has(troops[g].status_effects, "stun")
        /\ SkillAfterLoops(cfg, g, skill) = Unbound
        /\ ev' = [NoEvent EXCEPT !.kind = "error", !.actor = g,
                     !.default_target = get_frontline(cfg, troops, Other(g[1]))[1]]
    /\ pc' = "crashed"
    /\ UNCHANGED <<scn, burn_losses, applied, turn, troops, skills, armies, skill, queue, pending, winner>>

\* lines 306-311: the second attack of a multi_attack action
SecondAttack ==
    /\ pc = "second"
    /\ \E variance \in Variances :
        LET g == pending.attacker IN
        \E damage \in {calculate_damage(TroopOf(cfg, g).name, troops[g], troops[pending.target],
                                        pending.damage_modifiers, armies[Other(g[1])], variance)} :
        \E hit \in {apply_damage(troops, skills, pending.target, damage, g, skill)} :
        /\ troops' = hit.troops
        /\ skills' = hit.skills
        /\ ev' = [NoEvent EXCEPT !.kind = "second", !.actor = g, !.target = pending.target,
                     !.static_modifiers = pending.static_modifiers,
                     !.damage_modifiers = pending.damage_modifiers, !.damage = damage,
                     !.credited = skill]
    /\ pc' = "act"
    /\ pending' = NoPending
    /\ queue' = Tail(queue)
    /\ UNCHANGED <<scn, burn_losses, applied, turn, armies, skill, winner>>

\* lines 317-318 with an army defeated: break
EndPassBreak ==
    /\ pc = "act" /\ queue = <<>>
    /\ is_defeated(troops, "A") \/ is_defeated(troops, "B")
    /\ pc' = "winner"
    /\ ev' = [NoEvent EXCEPT !.kind = "break"]
    /\ UNCHANGED <<scn, burn_losses, applied, turn, troops, skills, armies, skill, queue, pending, winner>>

\* lines 317-318 with no army defeated: back to the loop test
EndPassContinue ==
    /\ pc = "act" /\ queue = <<>>
    /\ ~(is_defeated(troops, "A") \/ is_defeated(troops, "B"))
    /\ pc' = "loop"
    /\ ev' = [NoEvent EXCEPT !.kind = "endpass"]
    /\ UNCHANGED <<scn, burn_losses, applied, turn, troops, skills, armies, skill, queue, pending, winner>>

\* lines 321-329
DeclareWinner ==
    /\ pc = "winner"
    /\ winner' = determine_winner(troops)
    /\ pc' = "done"
    /\ ev' = [NoEvent EXCEPT !.kind = "report"]
    /\ UNCHANGED <<scn, burn_losses, applied, turn, troops, skills, armies, skill, queue, pending>>

Next ==
    \/ StartTurn
    \/ ExitLoop
    \/ TickTroop
    \/ TickSkipDead
    \/ TickArmy
    \/ DetermineOrder
    \/ NoTarget
    \/ StunSkip
    \/ Attack
    \/ Crash
    \/ SecondAttack
    \/ EndPassBreak
    \/ EndPassContinue
    \/ DeclareWinner

Spec == Init /\ [][Next]_vars

\* the program runs to its end without waiting on anything: every step that
\* can be taken is taken
FairSpec == Spec /\ WF_vars(Next)

-----------------------------------------------------------------------------
(* Vocabulary of the properties *)

\* the actor whose action is next
Actor == GroupOfItem(Head(queue))
Acting == pc = "act" /\ queue # <<>>
HasLiving(a) == \E g \in DOMAIN troops : g[1] = a /\ troops[g].alive
Entries(effects, kind) == {e \in effects : e.kind = kind}
Cap(id) == IF SkillOf(cfg, id).once_per_battle THEN 1 ELSE SkillOf(cfg, id).max_uses
Terminated == pc \in {"done", "crashed"}

-----------------------------------------------------------------------------
(* C1 -- C10 *)

\* C1: no operation of simulate_battle fails: every attack resolution completes,
\* the value of `skill` handed to apply_damage being defined, also for an actor
\* that has no static, no rng and no rolled hero skill.
C1_NoOperationFails == pc # "crashed"

\* C2: across every step of a battle (attack, second attack, burn tick) the
\* count of every group does not increase and is not negative afterwards.
C2_CountNeverGrows ==
    [][\A g \in DOMAIN troops :
          troops'[g].count <= troops[g].count /\ troops'[g].count >= 0]_vars

\* C2 witness: a burn tick has just removed troops from a group that an attack
\* had already reduced.
C2_Witness ==
    /\ ev.kind = "tick" /\ ev.damage > 0
    /\ troops[ev.actor].count > 0
    /\ troops[ev.actor].count < troops[ev.actor].initial_count

\* C3: in every reachable state, from construction onwards, a group is alive
\* if and only if its count is greater than 0.
C3_AliveIffCount ==
    \A g \in DOMAIN troops : troops[g].alive <=> troops[g].count > 0

\* C4: a skill's activation counter never exceeds 1 (once_per_battle) or
\* max_uses (otherwise); in a step it changes only for a skill whose
\* try_activate returned true, and then by exactly 1.
C4_ActivationCapped ==
    [][\A id \in DOMAIN skills :
          /\ skills'[id].activation_count <= Cap(id)
          /\ skills'[id].activation_count # skills[id].activation_count
                => id \in ev'.activated
          /\ (ev'.kind = "attack" /\ id \in ev'.activated)
                => skills'[id].activation_count = skills[id].activation_count + 1
          /\ (ev'.kind = "attack" /\ id \notin ev'.activated)
                => skills'[id].activation_count = skills[id].activation_count]_vars

\* C4 witness: an action has just rolled a once_per_battle skill and a capped
\* skill that had both used up their activations, and neither fired.
C4_Witness ==
    /\ ev.kind = "attack"
    /\ \E i, j \in 1..Len(ev.rolled) :
          /\ SkillOf(cfg, ev.rolled[i]).once_per_battle
          /\ ~SkillOf(cfg, ev.rolled[j]).once_per_battle
          /\ SkillOf(cfg, ev.rolled[j]).max_uses > 1
          /\ skills[ev.rolled[i]].activation_count = 1
          /\ skills[ev.rolled[j]].activation_count = SkillOf(cfg, ev.rolled[j]).max_uses
          /\ ev.rolled[i] \notin ev.activated /\ ev.rolled[j] \notin ev.activated

\* C5: the battle terminates; the turn counter never exceeds max_turns; a turn
\* is started only while no army is fully defeated; the loop is left at the end
\* of the first action pass after which an army has no living group.
C5_Terminates ==
    /\ [][/\ turn' <= cfg.max_turns
          /\ turn' # turn => /\ turn' = turn + 1
                             /\ HasLiving("A") /\ HasLiving("B")
          /\ (pc = "act" /\ queue = <<>> /\ ~(HasLiving("A") /\ HasLiving("B")))
                => (pc' = "winner" /\ turn' = turn)
          /\ pc = "winner" => (pc' = "done" /\ turn' = turn)
          /\ pc = "done" => pc' = "done"]_vars
    /\ <>Terminated

\* C5 witness: the battle ended before the turn cap, at the end of the pass in
\* which one army lost its last living group.
C5_Witness ==
    /\ pc = "done" /\ turn >= 1 /\ turn < cfg.max_turns
    /\ ~HasLiving("B") /\ HasLiving("A") /\ winner = "A"

\* C6: the winner is Draw iff both armies are fully defeated, the first army
\* iff only the second is, and the second army in every other case.
C6_Winner ==
    pc = "done" =>
        /\ winner = "Draw" <=> (~HasLiving("A") /\ ~HasLiving("B"))
        /\ winner = "A" <=> (HasLiving("A") /\ ~HasLiving("B"))
        /\ winner = "B" <=> HasLiving("B")

\* C6 witness: the turn cap was reached with neither army defeated, and the
\* second army was declared the winner.
C6_Witness ==
    /\ pc = "done" /\ turn = cfg.max_turns
    /\ HasLiving("A") /\ HasLiving("B")
    /\ winner = "B"

\* C7: an actor that is stunned when its turn comes, the opposing army having a
\* living group, evaluates no skill and attacks nobody; its stun loses one
\* remaining turn and is removed when none is left.
C7_StunnedActorSkips ==
    [][(Acting /\ HasLiving(Other(Actor[1])) /\ Has(troops[Actor].status_effects, "stun")) =>
          LET g == Actor
              stun == Get(troops[g].status_effects, "stun")
              left == Entries(troops'[g].status_effects, "stun")
          IN /\ skills' = skills /\ armies' = armies /\ skill' = skill
             /\ pc' = "act" /\ queue' = Tail(queue)
             /\ \A h \in DOMAIN troops : h # g => troops'[h] = troops[h]
             /\ troops'[g] = [troops[g] EXCEPT !.status_effects = troops'[g].status_effects]
             /\ troops'[g].status_effects \ left = troops[g].status_effects \ {stun}
             /\ IF stun.remaining_turns - 1 = 0 THEN left = {}
                ELSE left = {[stun EXCEPT !.remaining_turns = @ - 1]}]_vars

\* C7 witness: a stunned actor has just been skipped and keeps a stun with one
\* turn less.
C7_Witness ==
    /\ ev.kind = "stunned"
    /\ \E e \in troops[ev.actor].status_effects : e.kind = "stun" /\ e.remaining_turns >= 1

\* C8: when a burn skill fires on an attack, the target ends with exactly one
\* burn entry: the burn damage of the attack (damage dealt x value / 100) added
\* to the damage already stored, or alone if there was no entry, with
\* remaining_turns set to the skill's duration; no group ever carries two.
C8_BurnStacks ==
    [][/\ \A g \in DOMAIN troops :
             Cardinality(Entries(troops'[g].status_effects, "burn")) <= 1
       /\ (ev'.kind = "attack" /\ ev'.burn_skill # NoSkill) =>
             LET t == ev'.target
                 s == SkillOf(cfg, ev'.burn_skill)
                 old == Entries(troops[t].status_effects, "burn")
                 stored == IF old = {} THEN 0 ELSE (CHOOSE e \in old : TRUE).damage
             IN Entries(troops'[t].status_effects, "burn") =
                   {Effect("burn", 0, stored + (ev'.damage * s.value) \div 100, s.duration)}]_vars

\* C8 witness: a burn has just been applied to a target that still carried an
\* older burn with fewer turns left, and the stored damage is now the sum.
C8_Witness ==
    /\ ev.kind = "attack" /\ ev.burn_skill # NoSkill
    /\ \E e \in troops[ev.target].status_effects :
          /\ e.kind = "burn"
          /\ e.remaining_turns = SkillOf(cfg, ev.burn_skill).duration
          /\ e.damage > (ev.damage * SkillOf(cfg, ev.burn_skill).value) \div 100
          /\ ev.damage > 0

\* the group of the defending army that skill id names, as a set
Named(g, id) ==
    {h \in DOMAIN troops : h[1] = Other(g[1]) /\ TroopOf(cfg, h).name = SkillOf(cfg, id).target}
\* the positions, in the rolled list of event e, of the direct_attack skills that
\* activated and name a group that is alive in tr
DirectHits(e, tr) ==
    {i \in 1..Len(e.rolled) :
        /\ e.rolled[i] \in e.activated
        /\ SkillOf(cfg, e.rolled[i]).effect_type = "direct_attack"
        /\ \E h \in Named(e.actor, e.rolled[i]) : tr[h].alive}
Last(S) == CHOOSE i \in S : \A j \in S : j <= i
\* the damage of a step lands on group t alone
LandsOn(t, damage) ==
    /\ troops'[t].total_health = troops[t].total_health - damage
    /\ \A h \in DOMAIN troops : h # t => /\ troops'[h].count = troops[h].count
                                          /\ troops'[h].total_health = troops[h].total_health

\* C9 as stated: whenever a direct_attack skill activates in an action and the
\* group it names is alive, all damage of the action lands on that group.
C9_EveryDirectAttackLands ==
    [][ev'.kind = "attack" =>
          \A i \in DirectHits(ev', troops) :
             ev'.target \in Named(ev'.actor, ev'.rolled[i])]_vars

\* C9 amended: when direct_attack skills activate in an action, all damage of
\* the action (first and second attack) lands on the living group named by the
\* last of them in evaluation order, whatever the tiers; a direct_attack whose
\* named group is absent or not alive leaves the target unchanged.
C9_LastDirectAttackLands ==
    [][/\ ev'.kind = "attack" =>
             /\ IF DirectHits(ev', troops) # {}
                THEN ev'.target \in Named(ev'.actor, ev'.rolled[Last(DirectHits(ev', troops))])
                ELSE ev'.target = ev'.default_target
             /\ troops[ev'.target].alive
             /\ LandsOn(ev'.target, ev'.damage)
       /\ ev'.kind = "second" =>
             /\ ev'.target = ev.target
             /\ LandsOn(ev'.target, ev'.damage)]_vars

\* C9 witness: the second attack of an action has just hit a Back group that a
\* direct_attack named, while a Front group of the same army is alive.
C9_Witness ==
    /\ ev.kind = "second"
    /\ TroopOf(cfg, ev.target).position = "Back"
    /\ \E h \in DOMAIN troops :
          h[1] = ev.target[1] /\ troops[h].alive /\ TroopOf(cfg, h).position = "Front"
    /\ troops[ev.target].count < troops[ev.target].initial_count

Rank(g) ==
    CASE TroopOf(cfg, g).position = "Front" -> 1
      [] TroopOf(cfg, g).position = "Middle" -> 2
      [] TroopOf(cfg, g).position = "Back" -> 3
      [] OTHER -> 4
\* g is the first living group of the best tier of its army
IsFrontline(g) ==
    /\ troops[g].alive /\ Rank(g) <= 3
    /\ \A h \in DOMAIN troops :
          (h[1] = g[1] /\ troops[h].alive /\ h # g) =>
             Rank(h) > Rank(g) \/ (Rank(h) = Rank(g) /\ h[2] > g[2])

\* C10: an attack of an action in which no direct_attack skill fired hits the
\* first living group, in insertion order, of the best non-empty tier (Front,
\* then Middle, then Back) of the opposing army as it is when the actor acts;
\* an actor whose opposing army has no living group does nothing.
C10_DefaultTarget ==
    [][/\ (ev'.kind = "attack"
           /\ \A id \in ev'.activated : SkillOf(cfg, id).effect_type # "direct_attack")
             => (ev'.target[1] = Other(ev'.actor[1]) /\ IsFrontline(ev'.target))
       /\ (Acting /\ ~HasLiving(Other(Actor[1])))
             => (/\ troops' = troops /\ skills' = skills /\ armies' = armies
                 /\ queue' = Tail(queue) /\ pc' = "act")]_vars

\* C10 witness: an action without direct_attack has just hit the only living
\* group left, in the Back tier, of an army whose first two groups are gone.
C10_Witness ==
    /\ ev.kind = "attack"
    /\ \A id \in ev.activated : SkillOf(cfg, id).effect_type # "direct_attack"
    /\ TroopOf(cfg, ev.target).position = "Back"
    /\ \E h \in DOMAIN troops : h[1] = ev.target[1] /\ ~troops[h].alive /\ h[2] > ev.target[2]

-----------------------------------------------------------------------------
(* C11 -- C20 *)

\* a multi_attack skill activated in the action that event e records
MultiAttackFired(e) ==
    \E id \in e.activated : SkillOf(cfg, id).effect_type = "multi_attack"
Distinct(q) == \A i, j \in 1..Len(q) : q[i] = q[j] => i = j

\* C11: an actor resolves at most two attacks per turn: it attacks only as the
\* head of the turn's order, in which it occurs once, and leaves the order after
\* its first attack unless a second one is due; the second attack is resolved
\* only if a multi_attack skill activated in that action and the target is alive
\* after the first; every attack, first or second, is resolved against a group
\* that is alive when it is resolved.
C11_SecondAttackGated ==
    [][/\ pc \in {"act", "second"} => Distinct(queue)
       /\ ev'.kind = "attack" =>
             /\ Acting /\ ev'.actor = Actor
             /\ troops[ev'.target].alive
             /\ IF MultiAttackFired(ev') /\ troops'[ev'.target].alive
                THEN pc' = "second" /\ queue' = queue
                ELSE pc' = "act" /\ queue' = Tail(queue)
       /\ pc = "second" => ev'.kind = "second"
       /\ ev'.kind = "second" =>
             /\ pc = "second" /\ ev.kind = "attack"
             /\ ev'.actor = ev.actor /\ ev'.actor = Actor /\ ev'.target = ev.target
             /\ MultiAttackFired(ev)
             /\ troops[ev'.target].alive
             /\ pc' = "act" /\ queue' = Tail(queue)]_vars

\* C11 witness: a multi_attack skill fired in an action whose first attack
\* defeated the target, and the action ended without a second attack.
C11_Witness ==
    /\ ev.kind = "attack" /\ MultiAttackFired(ev)
    /\ ~troops[ev.target].alive /\ troops[ev.target].count = 0
    /\ pc = "act" /\ pending = NoPending

\* C12: a group that was alive when the turn's order was built and has been
\* defeated by an earlier actor of the same pass is skipped when its turn comes:
\* it evaluates no skill and deals no damage.
C12_DefeatedActorSkipped ==
    [][(Acting /\ ~troops[Actor].alive) =>
          /\ ev'.kind \notin {"attack", "error"}
          /\ skills' = skills
          /\ \A g \in DOMAIN troops : /\ troops'[g].count = troops[g].count
                                      /\ troops'[g].total_health = troops[g].total_health
                                      /\ troops'[g].kills = troops[g].kills
          /\ queue' = Tail(queue) /\ pc' = "act"]_vars

\* C13: the stun of a group changes only when it is applied and when the stunned
\* group is skipped at its action; the status tick at the start of a turn leaves
\* it as it is, so that a stun of duration d costs exactly d actions.
C13_StunOnlyConsumedAtAction ==
    [][\A g \in DOMAIN troops :
          Entries(troops'[g].status_effects, "stun") # Entries(troops[g].status_effects, "stun")
             => \/ (ev'.kind = "stunned" /\ ev'.actor = g)
                \/ (ev'.kind = "attack" /\ Entries(troops[g].status_effects, "stun") = {})]_vars

\* C14: the kills counter of a skill changes only in an attack of an action in
\* which that skill activated, and then by the casualties of the attack; a skill
\* that was rolled without activating, or a static skill, is never credited.
C14_KillsOnlyToActivated ==
    [][\A id \in DOMAIN skills :
          skills'[id].kills # skills[id].kills =>
             /\ id[1] # "static"
             /\ \/ (ev'.kind = "attack" /\ id \in ev'.activated)
                \/ (ev'.kind = "second" /\ id \in ev.activated)
             /\ skills'[id].kills - skills[id].kills =
                   troops[ev'.target].count - troops'[ev'.target].count]_vars

\* C15: in every reachable state the total_health of every group is its
\* effective health times its count (to the resolution of the fixed point), and
\* so never negative: after construction, with a once-per-battle health_increase
\* folded in, and after every apply_damage.
C15_TotalHealthIsHealthTimesCount ==
    \A g \in DOMAIN troops :
        LET product == (troops[g].effective_stats.health * troops[g].count) \div Scale IN
        /\ troops[g].total_health >= 0
        /\ troops[g].total_health - product <= Scale
        /\ product - troops[g].total_health <= Scale

\* the initiative of the group at place i of an order q
InitiativeAt(q, i) == TroopOf(cfg, GroupOfItem(q[i])).initiative

\* C16: the order of a turn lists every group that is alive after the tick of
\* the turn, once, by non-increasing initiative; among groups of equal
\* initiative those of the first army come before those of the second, and
\* groups of one army keep their insertion order; the actions of the turn are
\* resolved from the head of that order, one group after the other.
C16_InitiativeOrder ==
    [][/\ ev'.kind = "order" =>
             /\ Distinct(queue')
             /\ {GroupOfItem(queue'[i]) : i \in 1..Len(queue')}
                   = {g \in DOMAIN troops : troops[g].alive}
             /\ \A i, j \in 1..Len(queue') : i < j =>
                   /\ InitiativeAt(queue', i) >= InitiativeAt(queue', j)
                   /\ InitiativeAt(queue', i) = InitiativeAt(queue', j) =>
                         \/ (queue'[i][2] = "A" /\ queue'[j][2] = "B")
                         \/ (queue'[i][2] = queue'[j][2] /\ queue'[i][3] < queue'[j][3])
       /\ ev'.kind \in {"attack", "second", "stunned", "notarget", "error"} =>
             /\ queue # <<>> /\ ev'.actor = Actor
             /\ queue' \in {queue, Tail(queue)}
       /\ (pc = "act" /\ queue' # queue) => queue' = Tail(queue)]_vars

\* C16 witness: the order of a later turn has just been built without a group
\* that was defeated; it holds groups of equal initiative of both armies and of
\* one army, and a group placed behind one inserted after it.
C16_Witness ==
    /\ ev.kind = "order" /\ turn >= 2
    /\ \E g \in DOMAIN troops : ~troops[g].alive /\ troops[g].initial_count > 0
    /\ \E i, j \in 1..Len(queue) :
          i < j /\ InitiativeAt(queue, i) = InitiativeAt(queue, j) /\ queue[i][2] # queue[j][2]
    /\ \E i, j \in 1..Len(queue) :
          i < j /\ InitiativeAt(queue, i) = InitiativeAt(queue, j) /\ queue[i][2] = queue[j][2]
    /\ \E i, j \in 1..Len(queue) :
          i < j /\ queue[i][2] = queue[j][2] /\ queue[i][3] > queue[j][3]

\* the skills of the given effect type that activated in the action of event e
Fired(e, effect_type) ==
    {id \in e.activated : SkillOf(cfg, id).effect_type = effect_type}
\* how many skills of that name activated in the action of event e
FiredNamed(e, name) ==
    Cardinality({id \in e.activated : SkillOf(cfg, id).name = name})

\* C17: an action in which a stun, damage_taken_increase or damage_decrease
\* skill activates leaves every entry of that kind that was present (on a group
\* of the defending army, or on the defending army for damage_decrease) with its
\* value and remaining_turns, and creates no second entry; the activation
\* counter of the skill and the army's activation log still grow by one.
C17_NoRefreshOfPresentEffect ==
    [][ev'.kind = "attack" =>
          LET da == Other(ev'.actor[1]) IN
          /\ \A k \in {"stun", "damage_taken_increase"} : Fired(ev', k) # {} =>
                \A g \in DOMAIN troops :
                   /\ Cardinality(Entries(troops'[g].status_effects, k)) <= 1
                   /\ (g[1] = da /\ Has(troops[g].status_effects, k)) =>
                         Entries(troops'[g].status_effects, k) = Entries(troops[g].status_effects, k)
          /\ Fired(ev', "damage_decrease") # {} =>
                /\ Cardinality(Entries(armies'[da].status_effects, "damage_decrease")) <= 1
                /\ Has(armies[da].status_effects, "damage_decrease") =>
                      Entries(armies'[da].status_effects, "damage_decrease")
                         = Entries(armies[da].status_effects, "damage_decrease")
          /\ \A id \in ev'.activated :
                /\ skills'[id].activation_count = skills[id].activation_count + 1
                /\ armies'[ev'.actor[1]].skill_activation_log[SkillOf(cfg, id).name]
                      = armies[ev'.actor[1]].skill_activation_log[SkillOf(cfg, id).name]
                        + FiredNamed(ev', SkillOf(cfg, id).name)]_vars

\* C17 witness: in a turn after the one that applied them, a
\* damage_taken_increase skill and a damage_decrease skill of other values have
\* just activated against a target and an army that still carry the older
\* entries, which kept their values.
C17_Witness ==
    /\ ev.kind = "attack"
    /\ \E id \in Fired(ev, "damage_taken_increase") :
       \E e \in Entries(troops[ev.target].status_effects, "damage_taken_increase") :
          /\ e.value # SkillOf(cfg, id).value
          /\ applied[ev.target]["damage_taken_increase"].turn < turn
    /\ \E id \in Fired(ev, "damage_decrease") :
       \E e \in Entries(armies[ev.target[1]].status_effects, "damage_decrease") :
          /\ e.value # SkillOf(cfg, id).value
          /\ e.remaining_turns # SkillOf(cfg, id).duration
          /\ applied[<<ev.target[1], 0>>]["damage_decrease"].turn < turn

\* an application record says the effect lasts through turn t
Lasts(ap, t) == ap.duration >= 1 /\ ap.turn <= t /\ t <= ap.turn + ap.duration - 1
AllEffects ==
    UNION {troops[g].status_effects : g \in DOMAIN troops}
    \cup armies["A"].status_effects \cup armies["B"].status_effects

\* C18: a burn applied in turn N with duration d >= 1 to a group that stays
\* alive, unless refreshed, deals its stored damage in the tick of each of the
\* turns N+1 to N+d and at no other time, and is removed in the tick of turn
\* N+d; a damage_taken_increase or an army-wide damage_decrease applied in turn N
\* with duration d is present at the attacks of turns N to N+d-1 and gone from
\* the tick of turn N+d on; while actions are resolved no entry has
\* remaining_turns <= 0.
C18_EffectLifetime ==
    [][/\ ev'.kind = "tick" =>
             LET g == ev'.actor
                 burn == applied[g]["burn"]
                 old == Entries(troops[g].status_effects, "burn")
                 stored == (CHOOSE e \in old : TRUE).damage
             IN /\ old # {} <=> Lasts(burn, turn - 1)
                /\ old # {} =>
                      /\ ev'.damage = stored
                      /\ troops'[g].total_health = troops[g].total_health - stored
                      /\ troops'[g].count = troops[g].count - troops_lost(troops[g], stored)
                      /\ Entries(troops'[g].status_effects, "burn") =
                            IF turn < burn.turn + burn.duration
                            THEN {Effect("burn", 0, stored, burn.turn + burn.duration - turn)}
                            ELSE {}
                /\ old = {} => troops'[g].count = troops[g].count
                /\ Has(troops'[g].status_effects, "damage_taken_increase")
                      <=> Lasts(applied[g]["damage_taken_increase"], turn)
       /\ ev'.kind = "armytick" =>
             \A a \in {"A", "B"} : a = Head(queue)[2] =>
                (Has(armies'[a].status_effects, "damage_decrease")
                    <=> Lasts(applied[<<a, 0>>]["damage_decrease"], turn))
       /\ ev'.kind \in {"attack", "second"} =>
             LET t == ev'.target IN
             /\ Has(troops'[t].status_effects, "damage_taken_increase")
                   <=> Lasts(applied'[t]["damage_taken_increase"], turn)
             /\ Has(armies'[t[1]].status_effects, "damage_decrease")
                   <=> Lasts(applied'[<<t[1], 0>>]["damage_decrease"], turn)
       /\ \A g \in DOMAIN troops : troops'[g].count # troops[g].count =>
             \/ (ev'.kind = "tick" /\ ev'.actor = g /\ Has(troops[g].status_effects, "burn"))
             \/ (ev'.kind \in {"attack", "second"} /\ ev'.target = g)
       /\ pc' \in {"act", "second"} => \A e \in AllEffects' : e.remaining_turns >= 1]_vars

\* C18 witness: the tick of turn N+2 has just dealt, for the second time, the
\* damage of a burn applied in turn N with duration 2 and removed the entry from
\* a group that is still alive.
C18_Witness ==
    /\ ev.kind = "tick" /\ ev.damage > 0
    /\ applied[ev.actor]["burn"].duration = 2
    /\ applied[ev.actor]["burn"].turn + 2 = turn
    /\ ~Has(troops[ev.actor].status_effects, "burn")
    /\ troops[ev.actor].alive

\* C19: the static damage_increase modifiers used in an attack are exactly those
\* of the attacker's static skills whose target is "All" or the name of the
\* group that receives the damage of the attack, also when a direct_attack
\* skill has replaced the default frontline target in that action.
C19_StaticModifiersFollowTarget ==
    [][ev'.kind \in {"attack", "second"} =>
          ev'.static_modifiers = StaticModifiers(cfg, ev'.actor, ev'.target)]_vars

\* C20: in every reachable state the lightly and severely injured counters of a
\* group are 65% and 35% of the troops it has lost so far, so that their sum is
\* initial_count - count; the counters never decrease.
C20_InjuriesMatchLosses ==
    /\ [](\A g \in DOMAIN troops :
             LET lost == troops[g].initial_count - troops[g].count IN
             /\ troops[g].lightly_injured + troops[g].severely_injured = 100 * lost
             /\ troops[g].lightly_injured = lightly_injured_ratio * lost
             /\ troops[g].severely_injured = severely_injured_ratio * lost)
    /\ [][\A g \in DOMAIN troops :
             /\ troops'[g].lightly_injured >= troops[g].lightly_injured
             /\ troops'[g].severely_injured >= troops[g].severely_injured]_vars

\* C20 witness: a group that had already lost troops in an earlier turn has just
\* lost more in a burn tick, an attack or a second attack, and is still alive.
C20_Witness ==
    \E g \in DOMAIN troops :
        /\ (ev.kind \in {"attack", "second"} /\ ev.target = g) \/ (ev.kind = "tick" /\ ev.actor = g)
        /\ ev.damage > 0 /\ turn >= 2
        /\ troops[g].count > 0
        /\ troops[g].lightly_injured
              > lightly_injured_ratio * ((ev.damage * Scale) \div troops[g].effective_stats.health)
        /\ troops[g].severely_injured > 0

-----------------------------------------------------------------------------
(* C21 *)

\* generate_battle_report, line 342: the kills of the groups of army a in tr
RECURSIVE SumOver(_, _, _)
SumOver(tr, S, field) ==
    IF S = {} THEN 0
    ELSE LET g == CHOOSE x \in S : TRUE
         IN (IF field = "kills" THEN tr[g].kills ELSE tr[g].initial_count - tr[g].count)
            + SumOver(tr, S \ {g}, field)
total_kills(tr, a) == SumOver(tr, {g \in DOMAIN tr : g[1] = a}, "kills")
\* the troops the groups of army a have lost: the sum of initial_count - count
total_lost(tr, a) == SumOver(tr, {g \in DOMAIN tr : g[1] = a}, "lost")

\* C21: in every reachable state the kills of the groups of an army add up to
\* the troops the opposing army has lost in attacks (first and second hits);
\* the losses of burn ticks are credited to no group, so the sum never exceeds
\* the opposing army's total of initial_count - count and is strictly smaller
\* exactly when a burn tick has removed troops from the opposing army.
C21_KillsMatchAttackLosses ==
    /\ [](\A a \in {"A", "B"} :
             /\ total_kills(troops, a) = total_lost(troops, Other(a)) - burn_losses[Other(a)]
             /\ total_kills(troops, a) <= total_lost(troops, Other(a))
             /\ total_kills(troops, a) < total_lost(troops, Other(a)) <=> burn_losses[Other(a)] > 0)
    /\ [][/\ ev'.kind \in {"attack", "second"} =>
                /\ troops'[ev'.actor].kills - troops[ev'.actor].kills
                      = troops[ev'.target].count - troops'[ev'.target].count
                /\ \A g \in DOMAIN troops : g # ev'.actor => troops'[g].kills = troops[g].kills
          /\ ev'.kind \notin {"attack", "second"} =>
                \A g \in DOMAIN troops : troops'[g].kills = troops[g].kills]_vars

\* C21 witness: an army has lost troops both to attacks and to a burn tick, and
\* the kills of the other army fall short of its losses by the burn's share.
C21_Witness ==
    \E a \in {"A", "B"} :
        /\ burn_losses[Other(a)] > 0
        /\ total_kills(troops, a) > 0
        /\ total_kills(troops, a) + burn_losses[Other(a)] = total_lost(troops, Other(a))
        /\ total_kills(troops, Other(a)) > 0

====
